---- MODULE Spec2Model ----
(***************************************************************************)
(* A model of src/src/ilqr_solver.rs: the iLQR solver (ILQRSolver::new,    *)
(* jacobians, forward, backward, solve).                                   *)
(*                                                                         *)
(* Numbers.  The program computes in f64.  The model computes in exact     *)
(* rational arithmetic: a number is a pair <<p, q>> with q > 0 and         *)
(* gcd(p, q) = 1.  Rounding error of f64 is therefore not part of the      *)
(* model; every statement below about equality of numbers is a statement   *)
(* about the arithmetic the program approximates.                          *)
(*                                                                         *)
(* Matrices.  A nalgebra matrix with r >= 1 rows and c >= 1 columns is the *)
(* sequence of its r rows, each a sequence of c numbers.  A DVector is a   *)
(* matrix with one column, a transposed DVector a matrix with one row.     *)
(* nalgebra checks the shapes of the operands of +, -, * and dot at run    *)
(* time and panics when they do not fit; an operator of the model returns  *)
(* Panic in that case, and Panic is propagated by every operator.          *)
(***************************************************************************)
EXTENDS Integers, Sequences, FiniteSets, TLC

\* ------------------------------------------------------------------------
\* Bounds of the model.
MaxDim == 2
MaxT == 5
MaxIter == 2
\* The longest horizon tried with the dynamics whose trajectories have
\* fast-growing denominators (linear, saturated).
ShortT == 2

\* The reference scenario of tests::test_ilqr_solver.
RefTimeSteps == 10
RefMaxIterations == 100

\* ------------------------------------------------------------------------
\* Rational numbers.
Abs(i) == IF i < 0 THEN -i ELSE i

RECURSIVE Gcd(_, _)
Gcd(a, b) == IF b = 0 THEN a ELSE Gcd(b, a % b)

\* p / q in lowest terms, q # 0.
Rat(p, q) ==
    LET g == Gcd(Abs(p), Abs(q))
        s == IF q < 0 THEN -1 ELSE 1
    IN  <<s * (p \div g), s * (q \div g)>>

RZero == <<0, 1>>
ROne == <<1, 1>>
RInt(i) == <<i, 1>>
RNeg(a) == <<-a[1], a[2]>>
RAbs(a) == <<Abs(a[1]), a[2]>>
RIsZero(a) == a[1] = 0

RAdd(a, b) ==
    IF a[2] = 1 /\ b[2] = 1 THEN <<a[1] + b[1], 1>>
    ELSE LET g == Gcd(a[2], b[2])
         IN  Rat(a[1] * (b[2] \div g) + b[1] * (a[2] \div g),
                 (a[2] \div g) * b[2])

RSub(a, b) == RAdd(a, RNeg(b))

RMul(a, b) ==
    LET g1 == Gcd(Abs(a[1]), b[2])
        g2 == Gcd(Abs(b[1]), a[2])
    IN  IF a[1] = 0 \/ b[1] = 0 THEN RZero
        ELSE IF a[2] = 1 /\ b[2] = 1 THEN <<a[1] * b[1], 1>>
        ELSE <<(a[1] \div g1) * (b[1] \div g2), (a[2] \div g2) * (b[2] \div g1)>>

\* 1 / a, a # 0.
RInv(a) == IF a[1] < 0 THEN <<-a[2], -a[1]>> ELSE <<a[2], a[1]>>

RDiv(a, b) == RMul(a, RInv(b))

\* a < b, by the continued fractions of a and b (no product is formed).
RECURSIVE RLt(_, _)
RLt(a, b) ==
    LET fa == a[1] \div a[2]
        fb == b[1] \div b[2]
        ra == a[1] - fa * a[2]
        rb == b[1] - fb * b[2]
    IN  IF fa # fb THEN fa < fb
        ELSE IF rb = 0 THEN FALSE
        ELSE IF ra = 0 THEN TRUE
        ELSE RLt(<<b[2], rb>>, <<a[2], ra>>)

RECURSIVE RSum(_)
RSum(s) == IF s = <<>> THEN RZero ELSE RAdd(s[1], RSum(Tail(s)))

\* const EPSILON: f64 = 1e-5;
EPSILON == Rat(1, 100000)

\* ------------------------------------------------------------------------
\* nalgebra matrices.
Panic == <<>>
IsPanic(v) == v = Panic

NRows(M) == Len(M)
NCols(M) == Len(M[1])
Shape(M) == <<NRows(M), NCols(M)>>

Zeros(r, c) == [i \in 1..r |-> [j \in 1..c |-> RZero]]
Identity(r, c) == [i \in 1..r |-> [j \in 1..c |-> IF i = j THEN ROne ELSE RZero]]
FromElement(r, x) == [i \in 1..r |-> <<x>>]
Scaled(M, a) == [i \in 1..NRows(M) |-> [j \in 1..NCols(M) |-> RMul(a, M[i][j])]]

\* DVector::as_slice and DVector::from_row_slice: a column vector as the
\* flat sequence of its entries, and back.
AsSlice(v) == [i \in 1..NRows(v) |-> v[i][1]]
FromSlice(s) == [i \in 1..Len(s) |-> <<s[i]>>]

Transpose(M) ==
    IF IsPanic(M) THEN Panic
    ELSE [j \in 1..NCols(M) |-> [i \in 1..NRows(M) |-> M[i][j]]]

MatNeg(M) ==
    IF IsPanic(M) THEN Panic
    ELSE [i \in 1..NRows(M) |-> [j \in 1..NCols(M) |-> RNeg(M[i][j])]]

\* Matrix + Matrix: "Matrix addition/subtraction dimensions mismatch."
MatAdd(A, B) ==
    IF IsPanic(A) \/ IsPanic(B) THEN Panic
    ELSE IF Shape(A) # Shape(B) THEN Panic
    ELSE [i \in 1..NRows(A) |-> [j \in 1..NCols(A) |-> RAdd(A[i][j], B[i][j])]]

MatSub(A, B) == MatAdd(A, MatNeg(B))

\* Matrix * Matrix: "Matrix multiplication dimensions mismatch."
MatMul(A, B) ==
    IF IsPanic(A) \/ IsPanic(B) THEN Panic
    ELSE IF NCols(A) # NRows(B) THEN Panic
    ELSE [i \in 1..NRows(A) |-> [j \in 1..NCols(B) |->
            RSum([k \in 1..NCols(A) |-> RMul(A[i][k], B[k][j])])]]

\* Matrix / f64.
MatDivScalar(M, a) ==
    IF IsPanic(M) THEN Panic
    ELSE [i \in 1..NRows(M) |-> [j \in 1..NCols(M) |-> RDiv(M[i][j], a)]]

\* Matrix::dot: "Dot product dimensions mismatch": both operands must have
\* the same number of rows and the same number of columns.
Dot(A, B) ==
    IF IsPanic(A) \/ IsPanic(B) THEN Panic
    ELSE IF Shape(A) # Shape(B) THEN Panic
    ELSE RSum([k \in 1..(NRows(A) * NCols(A)) |->
            LET i == ((k - 1) \div NCols(A)) + 1
                j == ((k - 1) % NCols(A)) + 1
            IN  RMul(A[i][j], B[i][j])])

\* Matrix::set_column(j, column).
SetColumn(M, j, col) ==
    IF IsPanic(M) \/ IsPanic(col) THEN Panic
    ELSE IF Shape(col) # <<NRows(M), 1>> THEN Panic
    ELSE [i \in 1..NRows(M) |-> [M[i] EXCEPT ![j] = col[i][1]]]

\* v[i] += a on a flat sequence.
Bump(s, i, a) == [s EXCEPT ![i] = RAdd(s[i], a)]

\* Matrix::try_inverse of a square matrix: None (the model's Panic stands
\* for None here, its only caller unwraps it with expect) when the
\* determinant is zero.  Dimensions 1 and 2 are computed in closed form.
TryInverse(M) ==
    IF IsPanic(M) THEN Panic
    ELSE IF NRows(M) # NCols(M) THEN Panic
    ELSE IF NRows(M) = 1 THEN
        IF RIsZero(M[1][1]) THEN Panic ELSE <<<<RInv(M[1][1])>>>>
    ELSE IF NRows(M) = 2 THEN
        LET det == RSub(RMul(M[1][1], M[2][2]), RMul(M[1][2], M[2][1]))
        IN  IF RIsZero(det) THEN Panic
            ELSE << <<RDiv(M[2][2], det), RNeg(RDiv(M[1][2], det))>>,
                    <<RNeg(RDiv(M[2][1], det)), RDiv(M[1][1], det)>> >>
    ELSE Panic

\* ------------------------------------------------------------------------
\* The dynamics functions handed to solve: dynamics(x, u) on slices,
\* returning a DVector of the length of x.
\*   passthrough  |x: &[f64], _u: &[f64]| DVector::from_row_slice(&x)
\*   integrator   f(x, u) = x + u                       (state_dim = control_dim)
\*   linear       f(x, u) = A_true * x + B_true * u
\*   saturated    f(x, u) = x + clamp(u, -1, 1)          (state_dim = control_dim)
Clamp(a) ==
    IF RLt(a, RInt(-1)) THEN RInt(-1) ELSE IF RLt(ROne, a) THEN ROne ELSE a

Dynamics(f, x, u) ==
    CASE f.kind = "passthrough" -> FromSlice(x)
      [] f.kind = "integrator" -> FromSlice([k \in 1..Len(x) |-> RAdd(x[k], u[k])])
      [] f.kind = "linear" ->
            MatAdd(MatMul(f.A, FromSlice(x)), MatMul(f.B, FromSlice(u)))
      [] f.kind = "saturated" ->
            FromSlice([k \in 1..Len(x) |-> RAdd(x[k], Clamp(u[k]))])

\* ------------------------------------------------------------------------
\* ILQRSolver::new
New(state_dim, control_dim, Q, Qf, R) ==
    [state_dim |-> state_dim, control_dim |-> control_dim,
     Q |-> Q, Qf |-> Qf, R |-> R]

\* ------------------------------------------------------------------------
\* ILQRSolver::jacobians: central finite differences, one column of A per
\* state dimension and one column of B per control dimension.
\* Faulty variant: the difference is divided by EPSILON, not by 2 * EPSILON.
OneEpsilon == EPSILON

\* 2.0 * EPSILON
TwoEpsilon == RMul(RInt(2), EPSILON)

\* let df_dx = (f_xpdx - f_xmdx) / (2.0 * EPSILON);
DfDx(f, x, u, i) ==
    LET xpdx == Bump(AsSlice(x), i, EPSILON)
        xmdx == Bump(AsSlice(x), i, RNeg(EPSILON))
        f_xpdx == Dynamics(f, xpdx, AsSlice(u))
        f_xmdx == Dynamics(f, xmdx, AsSlice(u))
    IN  MatDivScalar(MatSub(f_xpdx, f_xmdx), TwoEpsilon)

\* let df_du = (f_updu - f_umdu) / (2.0 * EPSILON);
DfDu(f, x, u, i) ==
    LET updu == Bump(AsSlice(u), i, EPSILON)
        umdu == Bump(AsSlice(u), i, RNeg(EPSILON))
        f_updu == Dynamics(f, AsSlice(x), updu)
        f_umdu == Dynamics(f, AsSlice(x), umdu)
    IN  MatDivScalar(MatSub(f_updu, f_umdu), TwoEpsilon)

\* for i in 0..self.state_dim { ...; A.set_column(i, &df_dx); }
RECURSIVE JacobianA(_, _, _, _, _, _)
JacobianA(self, f, x, u, i, A) ==
    IF i > self.state_dim THEN A
    ELSE JacobianA(self, f, x, u, i + 1, SetColumn(A, i, DfDx(f, x, u, i)))

\* for i in 0..self.control_dim { ...; B.set_column(i, &df_du); }
RECURSIVE JacobianB(_, _, _, _, _, _)
JacobianB(self, f, x, u, i, B) ==
    IF i > self.control_dim THEN B
    ELSE JacobianB(self, f, x, u, i + 1, SetColumn(B, i, DfDu(f, x, u, i)))

Jacobians(self, f, x, u) ==
    LET A == JacobianA(self, f, x, u, 1, Zeros(self.state_dim, self.state_dim))
        B == JacobianB(self, f, x, u, 1, Zeros(self.state_dim, self.control_dim))
    IN  [A |-> A, B |-> B]

\* ------------------------------------------------------------------------
\* A call that panics has the value [panic |-> message].
ShapeMismatch == "dimensions mismatch"
QuuNotInvertible == "the matrix Quu is not invertible"
Fail(msg) == [panic |-> msg]
Failed(r) == "panic" \in DOMAIN r

\* ILQRSolver::forward: the rollout of us from x and its loss.  The value
\* is [xs, loss], or Fail(ShapeMismatch) when an operation of the loop
\* panics.
\* loss += ((delta.transpose() * &self.Q).dot(&delta.transpose()))
\*       + (&u.transpose() * &self.R).dot(&u);
StepLoss(self, delta, u) ==
    LET state_cost == Dot(MatMul(Transpose(delta), self.Q), Transpose(delta))
        control_cost == Dot(MatMul(Transpose(u), self.R), u)
    IN  IF IsPanic(state_cost) \/ IsPanic(control_cost) THEN Panic
        ELSE RAdd(state_cost, control_cost)

\* loss += (delta.transpose() * &self.Qf).dot(&delta.transpose());
FinalLoss(self, delta) ==
    Dot(MatMul(Transpose(delta), self.Qf), Transpose(delta))

RECURSIVE ForwardLoop(_, _, _, _, _, _, _, _)
ForwardLoop(self, x, us, target, dynamics, k, xs, loss) ==
    IF k > Len(us) THEN
        LET last == FinalLoss(self, MatSub(x, target))
        IN  IF IsPanic(last) THEN Fail(ShapeMismatch)
            ELSE [xs |-> xs, loss |-> RAdd(loss, last)]
    ELSE
        LET x1 == Dynamics(dynamics, AsSlice(x), AsSlice(us[k]))
            step == StepLoss(self, MatSub(x1, target), us[k])
        IN  IF IsPanic(x1) \/ IsPanic(step) THEN Fail(ShapeMismatch)
            ELSE ForwardLoop(self, x1, us, target, dynamics, k + 1,
                             Append(xs, x1), RAdd(loss, step))

Forward(self, x, us, target, dynamics) ==
    ForwardLoop(self, x, us, target, dynamics, 1, <<x>>, RZero)

\* ------------------------------------------------------------------------
\* ILQRSolver::backward.  Index i of the code (0-based) is i + 1 here.
\* One step of the loop body at index i, from the accumulators
\* acc = [s, S, Ks, ds]; Fail(..) when an operation of the body panics: a
\* shape mismatch, or expect("the matrix Quu is not invertible") on the None
\* of try_inverse.  The body is written as a chain of operators, each
\* handing the values computed so far to the next.
\*
\* let Qx = ..; let Qu = ..; let Qxx = ..; let Quu = ..; let Qux = ..;
LocalModel(self, x, u, target, A, B, s, S) ==
    [Qx |-> MatAdd(MatMul(self.Q, MatSub(x, target)),
                   Transpose(MatMul(Transpose(s), A))),
     Qu |-> MatAdd(MatMul(self.R, u), MatMul(Transpose(s), B)),
     Qxx |-> MatAdd(self.Q, MatMul(MatMul(Transpose(A), S), A)),
     Quu |-> MatAdd(self.R, MatMul(MatMul(Transpose(B), S), B)),
     Qux |-> MatMul(MatMul(Transpose(B), S), A)]

\* s = Qx; s += Ks[i].transpose() * &Quu * &ds[i];
\* s += Ks[i].transpose() * Qu; s += Qux.transpose() * &ds[i];
NextGradient(q, K, d) ==
    MatAdd(MatAdd(MatAdd(q.Qx,
        MatMul(MatMul(Transpose(K), q.Quu), d)),
        MatMul(Transpose(K), q.Qu)),
        MatMul(Transpose(q.Qux), d))

\* S = Qxx; S += Ks[i].transpose() * &Quu * &Ks[i];
\* S += Ks[i].transpose() * &Qux; S += Qux.transpose() * &Ks[i];
NextHessian(q, K) ==
    MatAdd(MatAdd(MatAdd(q.Qxx,
        MatMul(MatMul(Transpose(K), q.Quu), K)),
        MatMul(Transpose(K), q.Qux)),
        MatMul(Transpose(q.Qux), K))

Accumulate(i, acc, K, d, s1, S1) ==
    IF IsPanic(s1) \/ IsPanic(S1) THEN Fail(ShapeMismatch)
    ELSE [s |-> s1, S |-> S1,
          Ks |-> [acc.Ks EXCEPT ![i] = K],
          ds |-> [acc.ds EXCEPT ![i] = d]]

\* Ks[i] = -Quu_inv * &Qux; ds[i] = -Quu_inv * &Qu;
WithGains(i, acc, q, K, d) ==
    IF IsPanic(K) \/ IsPanic(d) THEN Fail(ShapeMismatch)
    ELSE Accumulate(i, acc, K, d, NextGradient(q, K, d), NextHessian(q, K))

\* let Quu_inv = &Quu.clone().try_inverse().expect("the matrix Quu is not invertible");
WithInverse(i, acc, q, Quu_inv) ==
    IF IsPanic(Quu_inv) THEN Fail(QuuNotInvertible)
    ELSE WithGains(i, acc, q, MatMul(MatNeg(Quu_inv), q.Qux),
                   MatMul(MatNeg(Quu_inv), q.Qu))

WithLocalModel(i, acc, q) ==
    IF IsPanic(q.Qx) \/ IsPanic(q.Qu) \/ IsPanic(q.Qxx) \/ IsPanic(q.Quu)
       \/ IsPanic(q.Qux)
    THEN Fail(ShapeMismatch)
    ELSE WithInverse(i, acc, q, TryInverse(q.Quu))

\* let (A, B) = self.jacobians(&dynamics, x.clone(), u.clone());
WithJacobians(self, x, u, target, i, acc, J) ==
    IF IsPanic(J.A) \/ IsPanic(J.B) THEN Fail(ShapeMismatch)
    ELSE WithLocalModel(i, acc,
            LocalModel(self, x, u, target, J.A, J.B, acc.s, acc.S))

\* let x = &xs[i]; let u = &us[i];
BackwardStep(self, xs, us, target, dynamics, i, acc) ==
    WithJacobians(self, xs[i], us[i], target, i, acc,
                  Jacobians(self, dynamics, xs[i], us[i]))

\* for i in (0..xs.len() - 1).rev() { ... }
RECURSIVE BackwardLoop(_, _, _, _, _, _, _)
BackwardLoop(self, xs, us, target, dynamics, i, acc) ==
    IF i < 1 \/ Failed(acc) THEN acc
    ELSE BackwardLoop(self, xs, us, target, dynamics, i - 1,
                      BackwardStep(self, xs, us, target, dynamics, i, acc))

\* The gains are allocated with one entry per state of xs.
Backward(self, xs, us, target, dynamics) ==
    LET Ks0 == [k \in 1..Len(xs) |-> Zeros(self.control_dim, self.state_dim)]
        ds0 == [k \in 1..Len(xs) |-> Zeros(self.control_dim, 1)]
        s0 == MatMul(self.Qf, MatSub(xs[Len(xs)], target))
        acc0 == [s |-> s0, S |-> self.Qf, Ks |-> Ks0, ds |-> ds0]
        acc == IF IsPanic(s0) THEN Fail(ShapeMismatch)
               ELSE BackwardLoop(self, xs, us, target, dynamics, Len(xs) - 1, acc0)
    IN  IF Failed(acc) THEN acc ELSE [Ks |-> acc.Ks, ds |-> acc.ds]

\* ------------------------------------------------------------------------
\* ILQRSolver::solve, step by step.
\*
\* let mut us = vec![DVector::zeros(self.control_dim); time_steps];
InitialControls(self, time_steps) ==
    [k \in 1..time_steps |-> Zeros(self.control_dim, 1)]

\* Faulty variant: the feedback term K * (x - xs[i]) is left out.
CorrectionFeedforwardOnly(K, d, x, xref) == d

\* let du = &Ks[i] * (&x - &xs[i]) + &ds[i];
Correction(K, d, x, xref) == MatAdd(MatMul(K, MatSub(x, xref)), d)

\* Faulty variant: x is recorded one index later, into xs[i + 1].
RecordStateNext(xs, i, x) == [xs EXCEPT ![i + 1] = x]

\* xs[i] = x.clone();
RecordState(xs, i, x) == [xs EXCEPT ![i] = x]

\* du.norm(): the Euclidean norm.  solve takes it of vectors of length 1
\* only (ScalarControlOnly below: a longer control vector panics in forward
\* before any correction exists), where it is the absolute value.
VecNorm(v) == RAbs(v[1][1])

\* dus.iter().map(|du| du.norm()).sum::<f64>()
NormTotal(dus) == RSum([k \in 1..Len(dus) |-> VecNorm(dus[k])])

\* Faulty variant: the comparison is reversed (norm > convergence_threshold).
ConvergedReversed(total, threshold) == RLt(RMul(threshold, threshold), total)

\* norm < convergence_threshold, with norm = sqrt(total): both sides are
\* >= 0, so the test is total < threshold^2.
Converged(total, threshold) == RLt(total, RMul(threshold, threshold))

\* ------------------------------------------------------------------------
\* The inputs: solvers, and arguments of solve.
Ones(r, c) == [i \in 1..r |-> [j \in 1..c |-> ROne]]

\* <<q, r>>: Q = q * I and R = r * I (Qf = I).
Weights == {<<1, 1>>, <<2, 1>>, <<1, 2>>, <<1, 0>>}
\* <<a, b>>: x0 has every entry a, target has every entry b.
Endpoints == {<<1, 1>>, <<0, 1>>, <<0, 3>>}
TimeSteps == {0, 1, ShortT, MaxT}
Thresholds == {RZero, Rat(1, 100), RInt(10)}

DynamicsFor(n, m, ts) ==
    {[kind |-> "passthrough"]}
    \cup (IF n = m THEN {[kind |-> "integrator"]} ELSE {})
    \cup (IF ts <= ShortT
          THEN {[kind |-> "linear", A |-> Identity(n, n), B |-> Ones(n, m)]}
          ELSE {})
    \cup (IF n = m /\ ts <= ShortT THEN {[kind |-> "saturated"]} ELSE {})

Scenario(n, m, qr, ab, f, ts, it, thr) ==
    [self |-> New(n, m, Scaled(Identity(n, n), RInt(qr[1])), Identity(n, n),
                  Scaled(Identity(m, m), RInt(qr[2]))),
     x0 |-> FromElement(n, RInt(ab[1])),
     target |-> FromElement(n, RInt(ab[2])),
     dynamics |-> f,
     time_steps |-> ts,
     max_iterations |-> it,
     convergence_threshold |-> thr]

\* tests::test_ilqr_solver
Reference ==
    [self |-> New(2, 1, Identity(2, 2), Identity(2, 2), Identity(1, 1)),
     x0 |-> Zeros(2, 1),
     target |-> FromElement(2, ROne),
     dynamics |-> [kind |-> "passthrough"],
     time_steps |-> RefTimeSteps,
     max_iterations |-> RefMaxIterations,
     convergence_threshold |-> Rat(1, 100)]

\* ------------------------------------------------------------------------
\* The state.
\*   solver, args   the ILQRSolver and the arguments of the running solve
\*   pc             "idle" (constructed, solve not called yet), "iterate"
\*                  (head of the for loop), "backward", "update" (the loop
\*                  over i, and its convergence check when i is past the
\*                  end), "return", "done" (solve has returned result),
\*                  "panicked" (the process has panicked with message panic)
\*   call           the number of calls of solve made on the solver
\*   iter           the iterations of the for loop completed
\*   us, xs, Ks, ds, dus, x, i   the locals of solve
\* History (written, never read by the actions):
\*   first          the result of the first call
\*   nominal        xs as the last forward pass returned it
\*   start          us at the head of the current iteration
\*   norms          per completed update, the sum of the norms of its dus
\*   after          per completed update, us after it
\*   passes         the forward passes, backward passes and updates completed
\*   lin            the state of a call of jacobians on its own (SpecLin)
VARIABLES solver, args, pc, call, iter, us, xs, Ks, ds, dus, x, i, result,
          panic, first, nominal, start, norms, after, passes, lin

vars == <<solver, args, pc, call, iter, us, xs, Ks, ds, dus, x, i, result,
          panic, first, nominal, start, norms, after, passes, lin>>

locals == <<us, xs, Ks, ds, dus, x, i>>

NoPasses == [forward |-> 0, backward |-> 0, update |-> 0]
LinIdle == [pc |-> "idle"]

InitWith(sc) ==
    /\ solver = sc.self
    /\ args = [x0 |-> sc.x0, target |-> sc.target, dynamics |-> sc.dynamics,
               time_steps |-> sc.time_steps,
               max_iterations |-> sc.max_iterations,
               convergence_threshold |-> sc.convergence_threshold]
    /\ pc = "idle"
    /\ call = 0
    /\ iter = 0
    /\ us = <<>> /\ xs = <<>> /\ Ks = <<>> /\ ds = <<>> /\ dus = <<>>
    /\ x = <<>> /\ i = 0
    /\ result = <<>>
    /\ panic = ""
    /\ first = <<>> /\ nominal = <<>> /\ start = <<>>
    /\ norms = <<>> /\ after = <<>> /\ passes = NoPasses
    /\ lin = LinIdle

Init ==
    \/ \E n \in 1..MaxDim, m \in 1..MaxDim, qr \in Weights,
          ab \in Endpoints, ts \in TimeSteps,
          it \in 0..MaxIter, thr \in Thresholds :
            \E f \in DynamicsFor(n, m, ts) :
                InitWith(Scenario(n, m, qr, ab, f, ts, it, thr))
    \/ InitWith(Reference)

\* Faulty variant: a second call starts from the controls the first call returned
\* instead of from zero controls.
SolveWarmStart ==
    /\ pc = "idle" \/ (pc = "done" /\ call = 1)
    /\ call' = call + 1
    /\ first' = IF pc = "done" THEN result ELSE first
    /\ us' = IF pc = "done" THEN result
             ELSE [k \in 1..args.time_steps |-> Zeros(solver.control_dim, 1)]
    /\ iter' = 0
    /\ pc' = "iterate"
    /\ xs' = <<>> /\ Ks' = <<>> /\ ds' = <<>> /\ dus' = <<>> /\ x' = <<>> /\ i' = 0
    /\ result' = <<>>
    /\ nominal' = <<>> /\ start' = <<>> /\ norms' = <<>> /\ after' = <<>>
    /\ passes' = NoPasses
    /\ UNCHANGED <<solver, args, panic, lin>>

\* solve is called: on the fresh solver, or once more, with the same
\* arguments, after the first call has returned.
Solve ==
    /\ pc = "idle" \/ (pc = "done" /\ call = 1)
    /\ call' = call + 1
    /\ first' = IF pc = "done" THEN result ELSE first
    /\ us' = InitialControls(solver, args.time_steps)
    /\ iter' = 0
    /\ pc' = "iterate"
    /\ xs' = <<>> /\ Ks' = <<>> /\ ds' = <<>> /\ dus' = <<>> /\ x' = <<>> /\ i' = 0
    /\ result' = <<>>
    /\ nominal' = <<>> /\ start' = <<>> /\ norms' = <<>> /\ after' = <<>>
    /\ passes' = NoPasses
    /\ UNCHANGED <<solver, args, panic, lin>>

\* for _ in 0..max_iterations { let (mut xs, _loss) = self.forward(..);
ForwardPass ==
    /\ pc = "iterate"
    /\ iter < args.max_iterations
    /\ LET r == Forward(solver, args.x0, us, args.target, args.dynamics)
       IN  IF Failed(r)
           THEN /\ pc' = "panicked"
                /\ panic' = r.panic
                /\ UNCHANGED <<xs, nominal, start, passes>>
           ELSE /\ pc' = "backward"
                /\ xs' = r.xs
                /\ nominal' = r.xs
                /\ start' = us
                /\ passes' = [passes EXCEPT !.forward = @ + 1]
                /\ UNCHANGED panic
    /\ UNCHANGED <<solver, args, call, iter, us, Ks, ds, dus, x, i, result,
                   first, norms, after, lin>>

\* let (Ks, ds) = self.backward(&xs, &us, &target, &dynamics);
\* let mut x = x0.clone(); let mut dus = vec![zeros; time_steps];
BackwardPass ==
    /\ pc = "backward"
    /\ LET r == Backward(solver, xs, us, args.target, args.dynamics)
       IN  IF Failed(r)
           THEN /\ pc' = "panicked"
                /\ panic' = r.panic
                /\ UNCHANGED <<Ks, ds, dus, x, i, passes>>
           ELSE /\ pc' = "update"
                /\ Ks' = r.Ks
                /\ ds' = r.ds
                /\ x' = args.x0
                /\ dus' = InitialControls(solver, args.time_steps)
                /\ i' = 1
                /\ passes' = [passes EXCEPT !.backward = @ + 1]
                /\ UNCHANGED panic
    /\ UNCHANGED <<solver, args, call, iter, us, xs, result, first, nominal,
                   start, norms, after, lin>>

\* for i in 0..time_steps { let du = ..; us[i] += &du; dus[i] = du;
\*     x = dynamics(x, us[i]); xs[i] = x.clone(); }
UpdateStep ==
    /\ pc = "update"
    /\ i <= args.time_steps
    /\ LET du == Correction(Ks[i], ds[i], x, xs[i])
           u1 == MatAdd(us[i], du)
           x1 == IF IsPanic(u1) THEN Panic
                 ELSE Dynamics(args.dynamics, AsSlice(x), AsSlice(u1))
       IN  IF IsPanic(du) \/ IsPanic(u1) \/ IsPanic(x1)
           THEN /\ pc' = "panicked"
                /\ panic' = ShapeMismatch
                /\ UNCHANGED locals
           ELSE /\ us' = [us EXCEPT ![i] = u1]
                /\ dus' = [dus EXCEPT ![i] = du]
                /\ x' = x1
                /\ xs' = RecordState(xs, i, x1)
                /\ i' = i + 1
                /\ UNCHANGED <<pc, panic, Ks, ds>>
    /\ UNCHANGED <<solver, args, call, iter, result, lin, first, nominal,
                   start, norms, after, passes>>

\* let norm = ..; if norm < convergence_threshold { break; } }
ConvergenceCheck ==
    /\ pc = "update"
    /\ i > args.time_steps
    /\ LET total == NormTotal(dus)
       IN  /\ norms' = Append(norms, total)
           /\ IF Converged(total, args.convergence_threshold)
              THEN pc' = "return" /\ iter' = iter
              ELSE pc' = "iterate" /\ iter' = iter + 1
    /\ after' = Append(after, us)
    /\ passes' = [passes EXCEPT !.update = @ + 1]
    /\ UNCHANGED <<solver, args, call, us, xs, Ks, ds, dus, x, i, result, panic,
                   first, nominal, start, lin>>

\* us: the loop has ended, by break or with its range exhausted.
Return ==
    /\ pc = "return" \/ (pc = "iterate" /\ iter >= args.max_iterations)
    /\ result' = us
    /\ pc' = "done"
    /\ UNCHANGED <<solver, args, call, iter, panic, lin, first, nominal, start,
                   norms, after, passes>>
    /\ UNCHANGED locals

Next ==
    \/ Solve
    \/ ForwardPass
    \/ BackwardPass
    \/ UpdateStep
    \/ ConvergenceCheck
    \/ Return

Spec == Init /\ [][Next]_vars

\* ------------------------------------------------------------------------
\* A call of jacobians on its own, on linear dynamics
\* f(x, u) = A_true * x + B_true * u, at a point (x, u).
Coeffs == {-1, 0, 2}
Points == {RInt(-3), RZero, Rat(1, 2), RInt(7)}

\* Matrices that are neither symmetric nor constant along rows or columns.
Ramp(r, c, a, b) == [k \in 1..r |-> [l \in 1..c |-> RInt(a * k + b * l)]]
PointVector(r, p) == [k \in 1..r |-> <<RMul(RInt(k), p)>>]

InitLin ==
    /\ \E n \in 1..MaxDim, m \in 1..MaxDim, a \in Coeffs, b \in Coeffs,
          c \in Coeffs, d \in Coeffs, p \in Points, w \in Points :
        lin = [pc |-> "call",
               self |-> New(n, m, Identity(n, n), Identity(n, n), Identity(m, m)),
               f |-> [kind |-> "linear", A |-> Ramp(n, n, a, b), B |-> Ramp(n, m, c, d)],
               x |-> PointVector(n, p),
               u |-> PointVector(m, w)]
    /\ solver = Reference.self
    /\ args = [x0 |-> Reference.x0, target |-> Reference.target,
               dynamics |-> Reference.dynamics,
               time_steps |-> Reference.time_steps,
               max_iterations |-> Reference.max_iterations,
               convergence_threshold |-> Reference.convergence_threshold]
    /\ pc = "idle"
    /\ call = 0
    /\ iter = 0
    /\ us = <<>> /\ xs = <<>> /\ Ks = <<>> /\ ds = <<>> /\ dus = <<>>
    /\ x = <<>> /\ i = 0
    /\ result = <<>>
    /\ panic = ""
    /\ first = <<>> /\ nominal = <<>> /\ start = <<>>
    /\ norms = <<>> /\ after = <<>> /\ passes = NoPasses

\* let (A, B) = self.jacobians(&dynamics, x.clone(), u.clone());
Linearize ==
    /\ lin.pc = "call"
    /\ LET J == Jacobians(lin.self, lin.f, lin.x, lin.u)
       IN  lin' = [pc |-> "done", self |-> lin.self, f |-> lin.f,
                   x |-> lin.x, u |-> lin.u, A |-> J.A, B |-> J.B]
    /\ UNCHANGED <<solver, args, pc, call, iter, result, panic, first, nominal,
                   start, norms, after, passes>>
    /\ UNCHANGED locals

NextLin == Linearize

SpecLin == InitLin /\ [][NextLin]_vars

\* ------------------------------------------------------------------------
\* Definitions the properties below are stated with.
T == args.time_steps
ZeroVector(v) == \A k \in 1..NRows(v) : RIsZero(v[k][1])
AllZero(vs) == \A k \in 1..Len(vs) : ZeroVector(vs[k])

\* The states x_1 .. x_k reached from x0 by the controls cs[1..k].
RECURSIVE RolloutState(_, _, _, _)
RolloutState(f, x0, cs, k) ==
    IF k = 0 THEN x0
    ELSE Dynamics(f, AsSlice(RolloutState(f, x0, cs, k - 1)), AsSlice(cs[k]))

\* The sum over t of |c_t[1]|, for controls of length 1.
SumAbs(cs) == RSum([k \in 1..Len(cs) |-> RAbs(cs[k][1][1])])

PositiveDefinite(M) ==
    \A k \in 1..NRows(M), l \in 1..NCols(M) :
        IF k = l THEN RLt(RZero, M[k][l]) ELSE RIsZero(M[k][l])

\* Sanity: the gains and the corrections exist only for a control of
\* length 1 (with a longer control the first forward pass panics).
ScalarControlOnly ==
    (pc \in {"backward", "update"} /\ T >= 1) => solver.control_dim = 1

\* ------------------------------------------------------------------------
\* C1: for every state_dim >= 1 and control_dim >= 1 (every Quu met being
\* invertible), solve runs to completion without panicking and returns
\* exactly time_steps control vectors, each of length control_dim.
C1_SolveCompletes ==
    /\ pc = "panicked" => panic = QuuNotInvertible
    /\ pc = "done" =>
        /\ Len(result) = T
        /\ \A k \in 1..T : Shape(result[k]) = <<solver.control_dim, 1>>

\* C2: a Quu that is not invertible is surfaced to the caller as an error
\* value: the process does not panic on it.
C2_QuuFailureIsAnErrorValue ==
    ~(pc = "panicked" /\ panic = QuuNotInvertible)

\* C3: when max_iterations >= 1 and the first iteration's correction norm
\* sqrt(sum of |du_t|) is below the threshold, the loop stops after exactly
\* one forward pass, one backward pass and one update, and the controls
\* returned are those of that update.  (us starts at zero, so after the
\* first update us[t] = du_t.)
FirstNormBelowThreshold ==
    /\ Len(after) >= 1
    /\ T >= 1 => solver.control_dim = 1
    /\ RLt(IF T = 0 THEN RZero ELSE SumAbs(after[1]),
           RMul(args.convergence_threshold, args.convergence_threshold))

C3_EarlyTermination ==
    FirstNormBelowThreshold =>
        /\ pc \in {"return", "done"}
        /\ iter = 0
        /\ passes = [forward |-> 1, backward |-> 1, update |-> 1]
        /\ pc = "done" => result = after[1]

C3_Witness ==
    /\ FirstNormBelowThreshold
    /\ pc = "done"
    /\ args.max_iterations >= 2
    /\ ~AllZero(result)

\* C4: solve always terminates: it runs at most max_iterations iterations
\* and then returns the current controls, converged or not.
C4_AlwaysReturns ==
    /\ iter <= args.max_iterations
    /\ passes.forward <= args.max_iterations
    /\ pc = "done" => result = us
    /\ pc # "panicked"

\* C5: a second call of solve on the same solver with the same arguments
\* returns the controls the first call returned.
C5_IdempotentResolve ==
    (call = 2 /\ pc = "done") => result = first

C5_Witness ==
    /\ call = 2
    /\ pc = "done"
    /\ ~AllZero(result)
    /\ Len(after) >= 2

\* C6: with x0 = target and dynamics with f(x, 0) = x (every Quu being
\* invertible), every feedforward term and every correction is zero and
\* solve returns the all-zero controls of length time_steps.
ZeroEffortCase == args.x0 = args.target

C6_ZeroEffort ==
    ZeroEffortCase =>
        /\ pc = "panicked" => panic = QuuNotInvertible
        /\ pc = "update" =>
            /\ \A k \in 1..T : ZeroVector(ds[k])
            /\ AllZero(dus)
        /\ pc = "done" => (Len(result) = T /\ AllZero(result))

\* C7: for the integrator f(x, u) = x + u with state_dim = control_dim,
\* positive definite Q and R and time_steps >= 5, the controls returned
\* drive the rollout from x0 to within 1e-3 of target, and the corrections
\* of the second iteration are zero.
IntegratorCase ==
    /\ args.dynamics.kind = "integrator"
    /\ PositiveDefinite(solver.Q)
    /\ PositiveDefinite(solver.R)
    /\ T >= 5

Terminal(cs) == RolloutState(args.dynamics, args.x0, cs, Len(cs))
Distance(v, w, k) == RAbs(RSub(v[k][1], w[k][1]))

C7_ReachesTarget ==
    IntegratorCase =>
        /\ (pc = "done" /\ args.max_iterations >= 1) =>
            \A k \in 1..solver.state_dim :
                RLt(Distance(Terminal(result), args.target, k), Rat(1, 1000))
        /\ Len(norms) >= 2 => RIsZero(norms[2])

\* C7 as amended: with state_dim = control_dim = 1 the corrections of the
\* second iteration are zero and the terminal state is no farther from the
\* target than x0, strictly closer when x0 # target; with
\* state_dim = control_dim >= 2 no forward pass completes and solve returns
\* only when max_iterations = 0.
C7_ExactInOneIteration ==
    IntegratorCase =>
        /\ solver.control_dim = 1 =>
            /\ Len(norms) >= 2 => RIsZero(norms[2])
            /\ pc # "panicked"
            /\ (pc = "done" /\ args.max_iterations >= 1) =>
                 IF args.x0 = args.target
                 THEN Terminal(result) = args.target
                 ELSE RLt(Distance(Terminal(result), args.target, 1),
                          Distance(args.x0, args.target, 1))
        /\ solver.control_dim >= 2 =>
            /\ passes.forward = 0
            /\ pc = "done" => args.max_iterations = 0

C7_Witness ==
    /\ IntegratorCase
    /\ solver.control_dim = 1
    /\ pc = "done"
    /\ Len(norms) >= 2
    /\ ~RIsZero(norms[1])
    /\ ~RLt(Distance(Terminal(result), args.target, 1), Rat(1, 1000))

\* C8: for linear dynamics f(x, u) = A_true * x + B_true * u, jacobians at
\* any point (x, u) returns A and B whose entries are within 1e-8 of those
\* of A_true and B_true.
Tolerance == Rat(1, 100000000)
Within(M, N) ==
    /\ Shape(M) = Shape(N)
    /\ \A k \in 1..NRows(M), l \in 1..NCols(M) :
        RLt(RAbs(RSub(M[k][l], N[k][l])), Tolerance)

C9_GainCount ==
    pc = "update" => (Len(Ks) = T /\ Len(ds) = T)

\* C10: in the update, step t computes du_t = K_t (x - xs[t]) + d_t, adds it
\* to us[t], advances x = f(x, us[t]) and records x into xs[t + 1], so that
\* xs[0] stays x0 and xs becomes the rollout of the updated controls.
\* (Index t of the code is t + 1 here; i is the next index to be updated.)
C10_RecordsAtNextIndex ==
    pc = "update" =>
        /\ xs[1] = args.x0
        /\ \A j \in 1..(i - 1) :
            xs[j + 1] = RolloutState(args.dynamics, args.x0, us, j)

\* C10 as amended: x is recorded into xs[t].  Entries t.. of xs are still
\* those of the forward pass when du_t is computed from xs[t]; entries
\* 0..t-1 hold the states x_1..x_t of the rollout of the updated controls,
\* so xs[0] does not stay x0 and xs[T] keeps the nominal terminal state.
Previous(j) == IF j = 1 THEN args.x0 ELSE xs[j - 1]

C10_RecordsAtSameIndex ==
    pc = "update" =>
        /\ Len(xs) = T + 1
        /\ \A j \in i..(T + 1) : xs[j] = nominal[j]
        /\ \A j \in 1..(i - 1) :
            /\ xs[j] = RolloutState(args.dynamics, args.x0, us, j)
            /\ dus[j] = Correction(Ks[j], ds[j], Previous(j), nominal[j])
            /\ us[j] = MatAdd(start[j], dus[j])
        /\ \A j \in i..T : us[j] = start[j] /\ ZeroVector(dus[j])
        /\ x = Previous(i)

C10_Witness ==
    /\ pc = "update"
    /\ T >= 2
    /\ i = T + 1
    /\ xs[1] # args.x0
    /\ \E j \in 1..T : Previous(j) # nominal[j] /\ dus[j] # ds[j]

====
